---- MODULE Spec2Model ----
(***************************************************************************)
(* Model of the embeddings-visualisation service (src/main.py): the        *)
(* /process endpoint, its pipeline process_data (resolve the dataset, read *)
(* the text and title fields, call the embedding provider, attach the      *)
(* vectors to the records, reduce with t-SNE, render with pyplot and save  *)
(* under static/) and the module-level state it shares between requests:   *)
(* the three record lists loaded at import, pyplot's figure stack and the  *)
(* static directory.                                                       *)
(*                                                                         *)
(* Strings are sequences of tokens: a token is a word without separators,  *)
(* or one of the separators "_" and "/".  Concatenation, rstrip and        *)
(* basename are computed on the token sequences.                           *)
(***************************************************************************)
EXTENDS Integers, Sequences, FiniteSets, TLC

VARIABLES
    DUMMY_ARTICLES,        \* main.py:73   list of records
    DUMMY_MOVIES,          \* main.py:74   list of records
    HUGGING_FACE_MOVIES,   \* main.py:79/83 list of records ([] when the load failed)
    loaded,                \* history: the three lists as they were after import
    static,                \* the files under STATIC_DIR: path |-> content
    figs,                  \* pyplot's figure stack, the last one is the current figure
    inv,                   \* per in-flight call of get_processed_data: its locals
    renders,               \* history: the saves made so far, oldest first
    tsne                   \* SpecTSNE: the TSNE object of the batch reduced last

vars == <<DUMMY_ARTICLES, DUMMY_MOVIES, HUGGING_FACE_MOVIES, loaded, static,
          figs, inv, renders, tsne>>

(***************************************************************************)
(* Bounds of the model.                                                    *)
(***************************************************************************)
MaxRecords == 2      \* longest record list loaded at import
MaxBatch == 100      \* largest batch handed to TSNE in SpecTSNE

\* The worker threads of the host; each runs one call of the endpoint, and
\* the two calls may overlap or follow one another.
Invocations == {"t1", "t2"}

(***************************************************************************)
(* Program constants.                                                      *)
(***************************************************************************)
MIN_PERPLEXITY == 5
STATIC_DIR == <<"static">>

(***************************************************************************)
(* Strings.                                                                *)
(***************************************************************************)
None == <<"<none>">>                 \* an absent query parameter / no value

Min(a, b) == IF a <= b THEN a ELSE b

\* str.rstrip("/"): drop every trailing "/".
RECURSIVE RStripSlash(_)
RStripSlash(s) ==
    IF s # <<>> /\ s[Len(s)] = "/" THEN RStripSlash(SubSeq(s, 1, Len(s) - 1)) ELSE s

\* Index of the last "/" of s, 0 when there is none.
RECURSIVE LastSlash(_, _)
LastSlash(s, k) ==
    IF k = 0 THEN 0 ELSE IF s[k] = "/" THEN k ELSE LastSlash(s, k - 1)

\* os.path.basename: what follows the last "/".
Basename(p) == SubSeq(p, LastSlash(p, Len(p)) + 1, Len(p))

\* os.path.dirname: what precedes the last "/".
Dirname(p) == SubSeq(p, 1, LastSlash(p, Len(p)) - 1)

\* os.path.join(a, b) for a relative b.
PathJoin(a, b) == a \o <<"/">> \o b

(***************************************************************************)
(* Records and the lists loaded at import.  A record maps field names to   *)
(* values; the value of field f of record k of list ds is <<ds, k, f>>.    *)
(***************************************************************************)
ArticleFields == {"id", "title", "content"}
MovieFields == {"id", "title", "plot"}
\* The record shapes the remote catalog may have: with and without "plot".
CatalogShapes == {{"title", "plot"}, {"title", "overview"}}

MkRecord(ds, k, fields) == [f \in fields |-> <<ds, k, f>>]
MkList(ds, n, fields) == [k \in 1..n |-> MkRecord(ds, k, fields)]

\* load_json_data: the parsed list, or [] when the file is missing or malformed.
load_json_data(ds, fields) == {MkList(ds, n, fields) : n \in 0..MaxRecords}

\* The vector the provider returns at position k of its response.
Vector(k) == <<"vector", k, "embedding">>

(***************************************************************************)
(* Requests: the query parameters and the base URL of the inbound request. *)
(***************************************************************************)
Req(t, s, tf, lf, b) ==
    [type |-> t, source |-> s, text_field |-> tf, title_field |-> lf, base_url |-> b]

\* str(request.base_url) ends with one "/": the host's root, or the host
\* mounted under a path.
HostRoot == <<"http://h", "/">>
HostApi == <<"http://h", "/", "api", "/">>

\* The requests the workers are given: the cases of api_test.py (no
\* parameters, movies from the remote catalog), the invalid text_field of
\* test_field_validation.py on movies, and two requests whose type and source
\* are other strings (the code accepts any) and spell the same
\* "{type}_{source}".
Requests ==
    { Req(None, None, None, None, HostApi),
      Req(<<"movies">>, <<"huggingface">>, None, None, HostRoot),
      Req(<<"movies">>, None, <<"invalid", "_", "field">>, None, HostRoot),
      Req(<<"movies">>, <<"dummy", "_", "dummy">>, None, None, HostRoot),
      Req(<<"movies", "_", "dummy">>, <<"dummy">>, None, None, HostRoot) }

\* request.query_params.get(name, default)
QueryGet(req, name, default) == IF req[name] = None THEN default ELSE req[name]

(***************************************************************************)
(* get_data_by_type: the list (by reference), the text field, the title    *)
(* field.                                                                  *)
(***************************************************************************)
Deref(ref) ==
    CASE ref = "DUMMY_ARTICLES" -> DUMMY_ARTICLES
      [] ref = "DUMMY_MOVIES" -> DUMMY_MOVIES
      [] ref = "HUGGING_FACE_MOVIES" -> HUGGING_FACE_MOVIES

get_data_by_type(data_type, source) ==
    IF data_type = <<"movies">>
    THEN IF source = <<"huggingface">> /\ HUGGING_FACE_MOVIES # <<>>
         THEN [data |-> "HUGGING_FACE_MOVIES", text_field |-> "plot", title_field |-> "title"]
         ELSE [data |-> "DUMMY_MOVIES", text_field |-> "plot", title_field |-> "title"]
    ELSE [data |-> "DUMMY_ARTICLES", text_field |-> "content", title_field |-> "title"]

\* [item[field] for item in items]: the values, or the KeyError of the first
\* record that lacks the field.
HasField(items, field) == \A k \in 1..Len(items) : field \in DOMAIN items[k]
Column(items, field) == [k \in 1..Len(items) |-> items[k][field]]

(***************************************************************************)
(* Exceptions and the result of the endpoint.                              *)
(***************************************************************************)
NoExc == [type |-> "none", arg |-> None]
Exc(t, a) == [type |-> t, arg |-> a]

\* The classes the pipeline can raise; all derive from Exception.
ExceptionSubclasses == {"KeyError", "IndexError", "ValueError", "APIError", "OSError"}

NoData == [type |-> None, source |-> None, count |-> 0, texts |-> <<>>, chart_url |-> None]
NoResult == [returned |-> FALSE, success |-> FALSE, error |-> None, data |-> NoData]

\* main.py:265-268
SuccessResult(d) == [returned |-> TRUE, success |-> TRUE, error |-> None, data |-> d]
\* main.py:270-274: error is str(e)
FailureResult(e) == [returned |-> TRUE, success |-> FALSE, error |-> e.arg, data |-> NoData]

\* A handler that lets everything but ValueError through.
CatchesValueErrorOnly(e) == e.type = "ValueError"
\* main.py:269 `except Exception as e`
Catches(e) == e.type \in ExceptionSubclasses

(***************************************************************************)
(* The locals of one call of get_processed_data / process_data, with the   *)
(* history of the stages it ran (trace) and of the calls it made to the    *)
(* embedding provider and to TSNE.                                         *)
(***************************************************************************)
Idle ==
    [pc |-> "idle", request |-> Req(None, None, None, None, None),
     data_type |-> None, source |-> None,
     data |-> "DUMMY_ARTICLES", text_field |-> "", title_field |-> "",
     texts |-> <<>>, embedding_vectors |-> 0, titles |-> <<>>,
     perplexity |-> 0, tsne_2d |-> 0, image_path |-> None,
     exc |-> NoExc, result |-> NoResult,
     trace |-> <<>>, provider_calls |-> <<>>, tsne_calls |-> <<>>]

Stage(name, status) == [stage |-> name, status |-> status]

\* The last entry of the trace gets the given status.
EndStage(trace, status) ==
    [trace EXCEPT ![Len(trace)] = Stage(trace[Len(trace)].stage, status)]

\* An exception raised in process_data reaches get_processed_data's handler
\* (main.py:263-274): caught, it becomes the failure result; otherwise it
\* leaves the endpoint.
Raise(l, e) ==
    IF Catches(e)
    THEN [l EXCEPT !.pc = "done", !.exc = e, !.result = FailureResult(e)]
    ELSE [l EXCEPT !.pc = "escaped", !.exc = e]

\* The host hands a request to a free worker, which enters get_processed_data.
\* The workers are interchangeable: t1 takes the first request.
Start(i) ==
    /\ inv[i].pc = "idle"
    /\ i = "t2" => inv["t1"].pc # "idle"
    /\ \E r \in Requests :
         inv' = [inv EXCEPT ![i] = [Idle EXCEPT !.pc = "resolve", !.request = r]]
    /\ UNCHANGED <<DUMMY_ARTICLES, DUMMY_MOVIES, HUGGING_FACE_MOVIES, loaded,
                   static, figs, tsne, renders>>

\* main.py:184-194: the parameters, the dataset, the sample of titles
\* (data[:3]) and the texts.
Resolve(i) ==
    /\ inv[i].pc = "resolve"
    /\ LET l == inv[i]
           data_type == QueryGet(l.request, "type", <<"articles">>)
           source == QueryGet(l.request, "source", <<"dummy">>)
           got == get_data_by_type(data_type, source)
           data == Deref(got.data)
           sample == SubSeq(data, 1, Min(3, Len(data)))
           l1 == [l EXCEPT !.data_type = data_type, !.source = source,
                           !.data = got.data, !.text_field = got.text_field,
                           !.title_field = got.title_field]
       IN  inv' = [inv EXCEPT ![i] =
             IF ~HasField(sample, got.title_field)
             THEN Raise([l1 EXCEPT !.trace = <<Stage("resolve", "failed")>>],
                        Exc("KeyError", <<got.title_field>>))
             ELSE IF ~HasField(data, got.text_field)
             THEN Raise([l1 EXCEPT !.trace = <<Stage("resolve", "failed")>>],
                        Exc("KeyError", <<got.text_field>>))
             ELSE [l1 EXCEPT !.pc = "embed",
                             !.texts = Column(data, got.text_field),
                             !.trace = <<Stage("resolve", "ok")>>]]
    /\ UNCHANGED <<DUMMY_ARTICLES, DUMMY_MOVIES, HUGGING_FACE_MOVIES, loaded,
                   static, figs, tsne, renders>>

\* The lengths of the list the provider may return for a batch of n texts:
\* its contract is n, the service is not bound by it.
ProviderAnswers(n) == {m \in {n - 1, n, n + 1} : m >= 0}

\* Swallowing the provider's error and going on with no vectors.
EmbedFailedContinue(l) ==
    [l EXCEPT !.pc = "attach", !.embedding_vectors = 0,
              !.trace = EndStage(l.trace, "failed")]
\* main.py:199-201: the error is printed and raised again
EmbedFailed(l) ==
    Raise([l EXCEPT !.trace = EndStage(l.trace, "failed")],
          Exc("APIError", <<"provider">>))

\* The locals once the provider has been called with all the texts.
Called(l) ==
    [l EXCEPT !.provider_calls = Append(@, Len(l.texts)),
              !.trace = Append(@, Stage("embed", "running"))]

\* main.py:196-201 and generate_embeddings (106-121): one call of the provider
\* with all the texts; it answers with vectors or fails.
Embed(i) ==
    /\ inv[i].pc = "embed"
    /\ \/ \E m \in ProviderAnswers(Len(inv[i].texts)) :
            inv' = [inv EXCEPT ![i] =
                      [Called(inv[i]) EXCEPT !.pc = "attach", !.embedding_vectors = m,
                                             !.trace = EndStage(@, "ok")]]
       \/ inv' = [inv EXCEPT ![i] = EmbedFailed(Called(inv[i]))]
    /\ UNCHANGED <<DUMMY_ARTICLES, DUMMY_MOVIES, HUGGING_FACE_MOVIES, loaded,
                   static, figs, tsne, renders>>

\* An assignment that replaces the record by one holding the embedding alone.
SetItemOnly(item, key, value) == [f \in {key} |-> value]
\* item[key] = value on a dict
SetItem(item, key, value) ==
    [f \in DOMAIN item \cup {key} |-> IF f = key THEN value ELSE item[f]]

\* main.py:204-205: the records of `data` that get an embedding before the
\* loop ends or embedding_vectors[i] raises IndexError.
Attached(data, m) ==
    [k \in 1..Len(data) |->
        IF k <= m THEN SetItem(data[k], "embedding", Vector(k)) ELSE data[k]]

\* main.py:203-208: the vectors are stored on the records of the
\* module-level list, then the titles are read.
Attach(i) ==
    /\ inv[i].pc = "attach"
    /\ LET l == inv[i]
           data == Attached(Deref(l.data), l.embedding_vectors)
       IN  /\ DUMMY_ARTICLES' =
                 IF l.data = "DUMMY_ARTICLES" THEN data ELSE DUMMY_ARTICLES
           /\ DUMMY_MOVIES' =
                 IF l.data = "DUMMY_MOVIES" THEN data ELSE DUMMY_MOVIES
           /\ HUGGING_FACE_MOVIES' =
                 IF l.data = "HUGGING_FACE_MOVIES" THEN data ELSE HUGGING_FACE_MOVIES
           /\ inv' = [inv EXCEPT ![i] =
                 IF l.embedding_vectors < Len(data)
                 THEN Raise(l, Exc("IndexError", <<"list index out of range">>))
                 ELSE IF ~HasField(data, l.title_field)
                 THEN Raise(l, Exc("KeyError", <<l.title_field>>))
                 ELSE [l EXCEPT !.pc = "reduce",
                                !.titles = Column(data, l.title_field)]]
    /\ UNCHANGED <<loaded, static, figs, tsne, renders>>

\* The neighbourhood taken without looking at the batch.
PerplexityUnclamped(n) == MIN_PERPLEXITY
\* main.py:141
Perplexity(n) == Min(MIN_PERPLEXITY, n - 1)

\* TSNE.fit_transform accepts a batch of n vectors when 0 < perplexity < n.
TsneAccepts(n, perplexity) == perplexity > 0 /\ perplexity < n

\* main.py:141-142: the TSNE object built for a batch of n vectors.
TSNE(n) == [n |-> n, perplexity |-> Perplexity(n)]

\* main.py:141-143: the perplexity, the TSNE object and fit_transform.
Reduce(i) ==
    /\ inv[i].pc = "reduce"
    /\ LET l == inv[i]
           n == l.embedding_vectors
           l1 == [l EXCEPT !.perplexity = TSNE(n).perplexity,
                           !.tsne_calls = Append(@, n)]
       IN  inv' = [inv EXCEPT ![i] =
                 IF TsneAccepts(n, TSNE(n).perplexity)
                 THEN [l1 EXCEPT !.pc = "figure", !.tsne_2d = n,
                                 !.trace = Append(@, Stage("reduce", "ok"))]
                 ELSE Raise([l1 EXCEPT !.trace = Append(@, Stage("reduce", "failed"))],
                            Exc("ValueError", <<"perplexity">>))]
    /\ UNCHANGED <<DUMMY_ARTICLES, DUMMY_MOVIES, HUGGING_FACE_MOVIES, loaded,
                   static, figs, tsne, renders>>

(***************************************************************************)
(* pyplot.  figs is the stack of open figures, the last one is the current *)
(* figure; every plt.* call of the module acts on the current figure.  A   *)
(* figure records who opened it, the points scattered on it, its           *)
(* annotations and its title.                                              *)
(***************************************************************************)
NewFigure(i) == [owner |-> i, points |-> {}, labels |-> {}, title |-> None]

\* plt.gcf(): the stack with a current figure, opening one when none is open.
Gcf(i) == IF figs = <<>> THEN <<NewFigure(i)>> ELSE figs

\* The stack with its current figure replaced.
SetCurrent(stack, fig) == [stack EXCEPT ![Len(stack)] = fig]

\* main.py:210: the key handed to create_tsne_visualization as data_type
ArtifactKey(data_type, source) == data_type \o <<"_">> \o source

\* A file name that leaves the key out.
FixedImagePath(key) == PathJoin(STATIC_DIR, <<"tsne", ".png">>)
\* main.py:166
ImagePath(key) == PathJoin(STATIC_DIR, <<"tsne", "_">> \o key \o <<".png">>)

\* main.py:146 plt.figure(...)
Figure(i) ==
    /\ inv[i].pc = "figure"
    /\ figs' = Append(figs, NewFigure(i))
    /\ inv' = [inv EXCEPT ![i].pc = "scatter",
                          ![i].trace = Append(@, Stage("render", "running"))]
    /\ UNCHANGED <<DUMMY_ARTICLES, DUMMY_MOVIES, HUGGING_FACE_MOVIES, loaded,
                   static, tsne, renders>>

\* main.py:147 plt.scatter(...): the points go on the current figure.
Scatter(i) ==
    /\ inv[i].pc = "scatter"
    /\ LET l == inv[i]
           stack == Gcf(i)
           fig == stack[Len(stack)]
       IN  figs' = SetCurrent(stack,
                     [fig EXCEPT !.points = @ \cup {<<l.data, k>> : k \in 1..l.tsne_2d}])
    /\ inv' = [inv EXCEPT ![i].pc = "annotate"]
    /\ UNCHANGED <<DUMMY_ARTICLES, DUMMY_MOVIES, HUGGING_FACE_MOVIES, loaded,
                   static, tsne, renders>>

\* main.py:150-162: one annotation per title at the point of the same index
\* (IndexError past the last point), then the title and the axes.
Annotate(i) ==
    /\ inv[i].pc = "annotate"
    /\ LET l == inv[i]
           stack == Gcf(i)
           fig == stack[Len(stack)]
           drawn == Min(Len(l.titles), l.tsne_2d)
           noted == [fig EXCEPT !.labels = @ \cup
                        {[text |-> l.titles[k], at |-> <<l.data, k>>] : k \in 1..drawn}]
       IN  IF Len(l.titles) > l.tsne_2d
           THEN /\ figs' = SetCurrent(stack, noted)
                /\ inv' = [inv EXCEPT ![i] =
                     Raise([l EXCEPT !.trace = EndStage(@, "failed")],
                           Exc("IndexError", <<"index out of bounds">>))]
           ELSE /\ figs' = SetCurrent(stack,
                             [noted EXCEPT !.title = ArtifactKey(l.data_type, l.source)])
                /\ inv' = [inv EXCEPT ![i].pc = "save"]
    /\ UNCHANGED <<DUMMY_ARTICLES, DUMMY_MOVIES, HUGGING_FACE_MOVIES, loaded,
                   static, tsne, renders>>

\* The directories that exist under the working directory: os.makedirs
\* (main.py:165) creates STATIC_DIR and nothing below it.
DirectoryExists(d) == d = STATIC_DIR

\* main.py:165-167: the path, and plt.savefig of the current figure.  The
\* write fails when the directory of the path is missing, and may fail for
\* reasons of the file system.
Save(i) ==
    /\ inv[i].pc = "save"
    /\ LET l == inv[i]
           image_path == ImagePath(ArtifactKey(l.data_type, l.source))
           stack == Gcf(i)
           l1 == [l EXCEPT !.image_path = image_path]
           failed == Raise([l1 EXCEPT !.trace = EndStage(@, "failed")],
                           Exc("OSError", image_path))
       IN  /\ figs' = stack
           /\ \/ /\ DirectoryExists(Dirname(image_path))
                 /\ static' = [q \in DOMAIN static \cup {image_path} |->
                                 IF q = image_path
                                 THEN [by |-> i, fig |-> stack[Len(stack)]]
                                 ELSE static[q]]
                 /\ renders' = Append(renders,
                                 [type |-> l.data_type, source |-> l.source,
                                  path |-> image_path, by |-> i,
                                  fig |-> stack[Len(stack)]])
                 /\ inv' = [inv EXCEPT ![i] = [l1 EXCEPT !.pc = "close"]]
              \/ /\ inv' = [inv EXCEPT ![i] = failed]
                 /\ UNCHANGED <<static, renders>>
    /\ UNCHANGED <<DUMMY_ARTICLES, DUMMY_MOVIES, HUGGING_FACE_MOVIES, loaded,
                   tsne>>

\* rstrip that leaves the text as it is.
KeepSlash(s) == s
\* main.py:216 str(request.base_url).rstrip("/")
BaseUrl(s) == RStripSlash(s)

\* main.py:217
ImageUrl(base_url, image_path) ==
    BaseUrl(base_url) \o <<"/", "static", "/">> \o Basename(image_path)

\* main.py:168-170, 215-227 and 264-268: plt.close() closes the current
\* figure, the URL is built and the success result returned.
Return(i) ==
    /\ inv[i].pc = "close"
    /\ figs' = SubSeq(figs, 1, Len(figs) - 1)
    /\ LET l == inv[i]
           d == [type |-> l.data_type, source |-> l.source,
                 count |-> Len(Deref(l.data)), texts |-> l.texts,
                 chart_url |-> ImageUrl(l.request.base_url, l.image_path)]
       IN  inv' = [inv EXCEPT ![i] =
                     [l EXCEPT !.pc = "done", !.result = SuccessResult(d),
                               !.trace = EndStage(@, "ok")]]
    /\ UNCHANGED <<DUMMY_ARTICLES, DUMMY_MOVIES, HUGGING_FACE_MOVIES, loaded,
                   static, tsne, renders>>

(***************************************************************************)
(* The service: the state after import, and the steps of the workers.      *)
(***************************************************************************)
Init ==
    /\ DUMMY_ARTICLES \in load_json_data("articles", ArticleFields)
    /\ DUMMY_MOVIES \in load_json_data("movies", MovieFields)
    /\ HUGGING_FACE_MOVIES \in
          {<<>>} \cup {MkList("catalog", MaxRecords, shape) : shape \in CatalogShapes}
    /\ loaded = [DUMMY_ARTICLES |-> DUMMY_ARTICLES, DUMMY_MOVIES |-> DUMMY_MOVIES,
                 HUGGING_FACE_MOVIES |-> HUGGING_FACE_MOVIES]
    /\ static = <<>>
    /\ figs = <<>>
    /\ inv = [i \in Invocations |-> Idle]
    /\ renders = <<>>
    /\ tsne = [n |-> 0, perplexity |-> 0]

Next ==
    \E i \in Invocations :
        \/ Start(i)
        \/ Resolve(i)
        \/ Embed(i)
        \/ Attach(i)
        \/ Reduce(i)
        \/ Figure(i)
        \/ Scatter(i)
        \/ Annotate(i)
        \/ Save(i)
        \/ Return(i)

Spec == Init /\ [][Next]_vars

\* The reduction alone (main.py:141-143) on batches of every size up to
\* MaxBatch.
FitBatch(n) ==
    /\ tsne' = TSNE(n)
    /\ UNCHANGED <<DUMMY_ARTICLES, DUMMY_MOVIES, HUGGING_FACE_MOVIES, loaded,
                   static, figs, inv, renders>>

NextTSNE == \E n \in 0..MaxBatch : FitBatch(n)

SpecTSNE == Init /\ [][NextTSNE]_vars

(***************************************************************************)
(* Properties.                                                             *)
(***************************************************************************)
Terminal == {"idle", "done", "escaped"}

\* A step of worker i inside the endpoint.
Step(i) ==
    \/ Resolve(i) \/ Embed(i) \/ Attach(i) \/ Reduce(i) \/ Figure(i)
    \/ Scatter(i) \/ Annotate(i) \/ Save(i) \/ Return(i)

FailedStage(l) == \E k \in 1..Len(l.trace) : l.trace[k].status = "failed"

\* C1: every call of /process ends with a structured result: no exception
\* leaves the endpoint, a call that raised (in resolve or field lookup, embed,
\* attach, reduce or render) returns success = false with the cause as error,
\* a call that did not raise returns success = true, and a call that has not
\* returned yet can always take its next step.
C1_AlwaysStructuredResult ==
    \A i \in Invocations :
        LET l == inv[i] IN
        /\ l.pc # "escaped"
        /\ (l.exc # NoExc \/ FailedStage(l)) =>
              /\ l.pc = "done"
              /\ l.result = [returned |-> TRUE, success |-> FALSE,
                             error |-> l.exc.arg, data |-> NoData]
              /\ l.exc.type \in ExceptionSubclasses
        /\ l.pc = "done" =>
              /\ l.result.returned
              /\ l.result.success <=> l.exc = NoExc
        /\ l.result.returned => l.pc = "done"
        /\ l.pc \notin Terminal => ENABLED Step(i)

\* C1 witness: one call failed in render (the save raised) and the other in
\* the field lookup, and both returned a failure result naming the cause.
C1_Witness ==
    /\ inv["t1"].pc = "done" /\ inv["t1"].exc.type = "OSError"
    /\ inv["t1"].result.success = FALSE /\ inv["t1"].result.error = inv["t1"].image_path
    /\ inv["t2"].pc = "done" /\ inv["t2"].exc = Exc("KeyError", <<"plot">>)
    /\ inv["t2"].result.success = FALSE /\ inv["t2"].result.error = <<"plot">>

StageOrder == <<"resolve", "embed", "reduce", "render">>

\* C2: within one call the stages run at most once each, in the order
\* resolve, embed, reduce, render; a stage starts only after the previous one
\* ended ok, so nothing runs after a failed stage and no stage is retried;
\* the provider and TSNE are called at most once.
C2_StagesInOrderOnce ==
    \A i \in Invocations :
        LET l == inv[i]
            t == l.trace
        IN  /\ \A k \in 1..Len(t) : t[k].stage = StageOrder[k]
            /\ Len(t) <= Len(StageOrder)
            /\ \A k \in 1..(Len(t) - 1) : t[k].status = "ok"
            /\ Len(l.provider_calls) <= 1
            /\ Len(l.tsne_calls) <= 1
            /\ Len(l.provider_calls) = 1 <=> Len(t) >= 2
            /\ Len(l.tsne_calls) = 1 <=> Len(t) >= 3
            /\ (Len(t) > 0 /\ t[Len(t)].status = "running") =>
                  l.pc \in {"scatter", "annotate", "save", "close"}
            /\ l.pc \in {"scatter", "annotate", "save", "close"} =>
                  t = <<Stage("resolve", "ok"), Stage("embed", "ok"),
                        Stage("reduce", "ok"), Stage("render", "running")>>

\* C2 witness: one call stopped at a failed embed with nothing after it,
\* the other ran the four stages to the end.
C2_Witness ==
    /\ inv["t1"].pc = "done"
    /\ inv["t1"].trace = <<Stage("resolve", "ok"), Stage("embed", "failed")>>
    /\ inv["t2"].pc = "done"
    /\ inv["t2"].trace = <<Stage("resolve", "ok"), Stage("embed", "ok"),
                           Stage("reduce", "ok"), Stage("render", "ok")>>


\* What a caller reads from the returned value: result.get("error_type")
\* (the value built at main.py:270-274 has no such key) and whether it is a
\* failure or a success.
ErrorTypeOf(result) == None
IsFailure(result) == result.returned /\ ~result.success
IsSuccess(result) == result.returned /\ result.success

\* The call has resolved its dataset (main.py:188-194 are behind it).
Resolved(l) == Len(l.trace) >= 1 /\ l.trace[1] = Stage("resolve", "ok")

\* C3 (as claimed): a call whose resolved dataset has no records ends in an
\* outcome that is neither a failure nor a success, and calls neither the
\* embedding provider nor TSNE.
C3_EmptyDatasetShortCircuits ==
    \A i \in Invocations :
        LET l == inv[i] IN
        (Resolved(l) /\ Deref(l.data) = <<>>) =>
            /\ l.provider_calls = <<>>
            /\ l.tsne_calls = <<>>
            /\ l.pc = "done" => ~IsFailure(l.result) /\ ~IsSuccess(l.result)

\* C4 (as claimed): a call whose batch has exactly one record never calls
\* TSNE with fewer than 2 vectors and, when the provider answered with the
\* one vector, returns a failure tagged InsufficientDataError.
C4_InsufficientDataNeverReduced ==
    \A i \in Invocations :
        LET l == inv[i] IN
        (Resolved(l) /\ Len(l.texts) = 1) =>
            /\ \A k \in 1..Len(l.tsne_calls) : l.tsne_calls[k] >= 2
            /\ (l.pc = "done" /\ l.provider_calls = <<1>> /\ l.embedding_vectors = 1) =>
                 /\ IsFailure(l.result)
                 /\ ErrorTypeOf(l.result) = <<"InsufficientDataError">>

\* The field a request chooses: its override, else the default of its type
\* (as tokens).
ChosenTextField(l) ==
    IF l.request.text_field # None THEN l.request.text_field
    ELSE IF QueryGet(l.request, "type", <<"articles">>) = <<"movies">>
         THEN <<"plot">> ELSE <<"content">>
ChosenTitleField(l) ==
    IF l.request.title_field # None THEN l.request.title_field ELSE <<"title">>

\* Some record of the list lacks the field named by the tokens.
Lacks(items, name) ==
    \E k \in 1..Len(items) : \A f \in DOMAIN items[k] : <<f>> # name

\* C5 (as claimed): a call whose chosen text or title field is missing on
\* a record of its dataset never calls the provider and, once returned, is
\* a failure.
C5_MissingFieldRejected ==
    \A i \in Invocations :
        LET l == inv[i]
            items == Deref(l.data)
        IN  (l.pc \notin {"idle", "resolve"}
               /\ (Lacks(items, ChosenTextField(l)) \/ Lacks(items, ChosenTitleField(l)))) =>
              /\ l.provider_calls = <<>>
              /\ l.pc = "done" => IsFailure(l.result)

\* The list a (type, origin) names.
RequestedList(data_type, source) ==
    CASE data_type = <<"movies">> /\ source = <<"huggingface">> -> "HUGGING_FACE_MOVIES"
      [] data_type = <<"movies">> /\ source = <<"dummy">> -> "DUMMY_MOVIES"
      [] data_type = <<"articles">> /\ source = <<"dummy">> -> "DUMMY_ARTICLES"
      [] OTHER -> "unknown"

\* C6 (as claimed): the records a call works on are those of the (type,
\* origin) it was asked for and that its result and artifact name: the texts
\* are the text column of that list, and are empty when that list is empty.
C6_ResolveNeverSubstitutes ==
    \A i \in Invocations :
        LET l == inv[i]
            want == RequestedList(l.data_type, l.source)
        IN  (Resolved(l) /\ want # "unknown") =>
              /\ Len(l.texts) = Len(Deref(want))
              /\ \A k \in 1..Len(l.texts) : l.texts[k] = Deref(want)[k][l.text_field]


Lists == {"DUMMY_ARTICLES", "DUMMY_MOVIES", "HUGGING_FACE_MOVIES"}

ExpectedFile(data_type, source) == <<"tsne", "_">> \o data_type \o <<"_">> \o source \o <<".png">>
ExpectedPath(data_type, source) == <<"static", "/">> \o ExpectedFile(data_type, source)

RenderedKeys == {<<renders[k].type, renders[k].source>> : k \in 1..Len(renders)}
RenderedPaths == {ExpectedPath(renders[k].type, renders[k].source) : k \in 1..Len(renders)}

\* The last save made to path q.
LastRender(q) ==
    renders[CHOOSE k \in 1..Len(renders) :
              /\ renders[k].path = q
              /\ \A j \in (k + 1)..Len(renders) : renders[j].path # q]

\* C8 (as claimed): the storage holds exactly one artifact per distinct
\* key (type, origin) that was rendered.
C8_OneArtifactPerKey == Cardinality(DOMAIN static) = Cardinality(RenderedKeys)

\* C8 (amended): every save of a key (type, origin) goes to
\* static/tsne_{type}_{origin}.png; the storage holds exactly one artifact
\* per distinct such name that was rendered (keys whose names coincide share
\* one file, so at most one per key), and it is the one written by the most
\* recent save to that name.
C8_OneArtifactPerName ==
    /\ \A k \in 1..Len(renders) :
         renders[k].path = ExpectedPath(renders[k].type, renders[k].source)
    /\ DOMAIN static = RenderedPaths
    /\ Cardinality(DOMAIN static) <= Cardinality(RenderedKeys)
    /\ \A q \in DOMAIN static :
         static[q] = [by |-> LastRender(q).by, fig |-> LastRender(q).fig]

\* C8 witness: two calls rendered the same key one after the other, both
\* returned success, and the storage holds the one file, written by the
\* second.
C8_Witness ==
    /\ Len(renders) = 2
    /\ renders[1].type = renders[2].type /\ renders[1].source = renders[2].source
    /\ renders[1].by # renders[2].by
    /\ \A i \in Invocations : IsSuccess(inv[i].result)
    /\ DOMAIN static = {renders[2].path}
    /\ static[renders[2].path].by = renders[2].by

\* C9: for a batch of n >= 2 vectors the perplexity given to TSNE is
\* min(5, n - 1): at least 1, less than n, and 1, 2, 5, 5 for n = 2, 3, 6, 100.
C9_PerplexityClamped ==
    tsne.n >= 2 =>
        /\ tsne.perplexity = (IF tsne.n - 1 < 5 THEN tsne.n - 1 ELSE 5)
        /\ tsne.perplexity >= 1
        /\ tsne.perplexity < tsne.n
        /\ tsne.n = 2 => tsne.perplexity = 1
        /\ tsne.n = 3 => tsne.perplexity = 2
        /\ tsne.n = 6 => tsne.perplexity = 5
        /\ tsne.n = 100 => tsne.perplexity = 5

\* C9 witness: a batch of 100 vectors was reduced with perplexity 5.
C9_Witness == tsne.n = 100 /\ tsne.perplexity = 5

\* C10: a successful call returns as chart_url the base URL of its request
\* without the trailing slash, then /static/ and tsne_{type}_{origin}.png,
\* where type and origin are the request's or, absent, articles and dummy;
\* that file is in the storage and this call saved it.
C10_ChartUrlNamesArtifact ==
    \A i \in Invocations :
        LET l == inv[i]
            d == l.result.data
            b == l.request.base_url
            file == ExpectedFile(d.type, d.source)
        IN  IsSuccess(l.result) =>
              /\ d.type = (IF l.request.type = None THEN <<"articles">> ELSE l.request.type)
              /\ d.source = (IF l.request.source = None THEN <<"dummy">> ELSE l.request.source)
              /\ b[Len(b)] = "/"
              /\ d.chart_url = SubSeq(b, 1, Len(b) - 1) \o <<"/", "static", "/">> \o file
              /\ <<"static", "/">> \o file \in DOMAIN static
              /\ \E k \in 1..Len(renders) :
                   renders[k].by = i /\ renders[k].path = <<"static", "/">> \o file
              /\ (l.request.type = None /\ l.request.source = None) =>
                   d.chart_url = <<"http://h", "/", "api", "/", "static", "/",
                                   "tsne", "_", "articles", "_", "dummy", ".png">>

\* C10 witness: a request without parameters succeeded.
C10_Witness ==
    \E i \in Invocations :
        /\ IsSuccess(inv[i].result)
        /\ inv[i].request.type = None /\ inv[i].request.source = None
        /\ inv[i].result.data.count = 2


\* What a caller reads as result["data"].get("fields_used"): the value built
\* at main.py:221-227 has no such key.
FieldsUsedOf(result) == [text |-> None, title |-> None]

\* C11 (as claimed): a successful call read the text and the title from the
\* fields its request chose (the overrides, else the defaults of the type),
\* and its result reports those two names as fields_used.
C11_ChosenFieldsUsedAndReported ==
    \A i \in Invocations :
        LET l == inv[i] IN
        IsSuccess(l.result) =>
            /\ <<l.text_field>> = ChosenTextField(l)
            /\ <<l.title_field>> = ChosenTitleField(l)
            /\ FieldsUsedOf(l.result) =
                 [text |-> ChosenTextField(l), title |-> ChosenTitleField(l)]


ErrorTags == {<<"FieldNotFoundError">>, <<"EmbeddingProviderError">>,
              <<"InsufficientDataError">>}

\* The tag the failure of a stage is to carry.
TagOfStage(name) ==
    CASE name = "resolve" -> <<"FieldNotFoundError">>
      [] name = "embed" -> <<"EmbeddingProviderError">>
      [] name = "reduce" -> <<"InsufficientDataError">>
      [] OTHER -> None

\* C12 (as claimed): every failure result carries an error_type among
\* FieldNotFoundError, EmbeddingProviderError and InsufficientDataError, and
\* the tag is the one of the stage that failed.
C12_FailureCarriesErrorType ==
    \A i \in Invocations :
        LET l == inv[i] IN
        IsFailure(l.result) =>
            /\ ErrorTypeOf(l.result) \in ErrorTags
            /\ \A k \in 1..Len(l.trace) :
                 (l.trace[k].status = "failed" /\ l.trace[k].stage # "render") =>
                     ErrorTypeOf(l.result) = TagOfStage(l.trace[k].stage)


\* The points and labels call i draws: one point per vector and one label
\* per title of its own dataset.
OwnPoints(i) == {<<inv[i].data, k>> : k \in 1..inv[i].tsne_2d}
OwnLabels(i) ==
    {[text |-> inv[i].titles[k], at |-> <<inv[i].data, k>>] : k \in 1..Len(inv[i].titles)}

\* The two calls work on different artifact keys, and the provider sent each
\* one vector per text.
DifferentKeys ==
    /\ \A i \in Invocations :
         /\ inv[i].pc \notin {"idle", "resolve", "embed"}
         /\ inv[i].provider_calls # <<>> => inv[i].embedding_vectors = Len(inv[i].texts)
    /\ <<inv["t1"].data_type, inv["t1"].source>> # <<inv["t2"].data_type, inv["t2"].source>>

\* C13 (as claimed): when two calls with different artifact keys overlap,
\* whatever the interleaving of their render steps, every open figure holds
\* only what the call that opened it drew, and every artifact saved is the
\* saving call's own figure with exactly its own points and labels.
C13_RendersDoNotInterfere ==
    DifferentKeys =>
        /\ \A k \in 1..Len(figs) :
             /\ figs[k].points \subseteq OwnPoints(figs[k].owner)
             /\ figs[k].labels \subseteq OwnLabels(figs[k].owner)
        /\ \A k \in 1..Len(renders) :
             /\ renders[k].fig.owner = renders[k].by
             /\ renders[k].fig.points = OwnPoints(renders[k].by)
             /\ renders[k].fig.labels = OwnLabels(renders[k].by)


\* The provider answered call i, with a number of vectors other than the
\* number of records.
VectorsMismatch(l) ==
    /\ Len(l.trace) >= 2 /\ l.trace[2] = Stage("embed", "ok")
    /\ l.embedding_vectors # Len(l.texts)

\* C14 (as claimed): a call whose provider returned fewer or more vectors
\* than it has records saves no artifact and returns a failure; every artifact saved was rendered from as many points
\* as labels.
C14_MismatchFailsFast ==
    \A i \in Invocations :
        LET l == inv[i] IN
        /\ VectorsMismatch(l) =>
             /\ \A k \in 1..Len(renders) : renders[k].by # i
             /\ l.pc = "done" => IsFailure(l.result)
        /\ (\E k \in 1..Len(renders) : renders[k].by = i) => l.tsne_2d = Len(l.titles)

\* C15 (as claimed): a call that has returned or raised leaves no figure
\* open, whether its render succeeded or its annotate or save step failed.
C15_NoFigureLeftOpen ==
    \A k \in 1..Len(figs) : inv[figs[k].owner].pc \notin {"done", "escaped"}

====
